---- MODULE Spec2Model ----
(***************************************************************************)
(* Model of the pull-request review engine of iac-pr-review-app:           *)
(* PRHandler.handlePullRequestEvent and processFile (src/src/PRHandler.ts) *)
(* together with the collaborators they call: the Prisma table             *)
(* PRReviewComment, AIReviewService.getFileReview, ReviewFormatter and the  *)
(* GitHub provider calls of GitHubPRService.                               *)
(*                                                                         *)
(* Every `await` of the handler is one action.  A collaborator call either *)
(* returns or throws; which one is the environment's choice.  The handler  *)
(* never deletes a comment; a comment deleted on GitHub by hand shows only *)
(* as an updateReviewComment that throws, which may happen at any call.    *)
(***************************************************************************)
EXTENDS Integers, Sequences, FiniteSets, TLC

\* ------------------------------------------------------------------ bounds
NumProcs == 2       \* webhook deliveries that may be in the handler at once
MaxFiles == 2       \* longest file listing the provider returns
MaxSha == 2         \* distinct blob hashes a file can have
MaxComments == 2    \* comment ids the provider issues before it only fails
MaxTime == 2        \* milliseconds the clock advances
MaxTokens == 2      \* installation tokens GitHub issues before it only fails

Procs == 1..NumProcs
Shas == 1..MaxSha
CommentIds == 1..MaxComments
PRs == {7, 8}

\* ------------------------------------------------------------ file names
\* A file name is the sequence of its characters, so that the '.tf' filter
\* is computed on the name as String.prototype.endsWith computes it.
mainTf == <<"m", ".", "t", "f">>
varsTf == <<"v", ".", "t", "f">>
tfvars == <<"v", ".", "t", "f", "v", "a", "r", "s">>
FileNames == {mainTf, varsTf, tfvars}

endsWith(s, suffix) ==
    /\ Len(s) >= Len(suffix)
    /\ SubSeq(s, Len(s) - Len(suffix) + 1, Len(s)) = suffix

isTerraformAll(file) == TRUE

isTerraform(file) == endsWith(file.filename, <<".", "t", "f">>)

\* ------------------------------------------------------------- listings
\* What listPullRequestFiles can return: at most MaxFiles files, each path
\* once (a pull request lists a path once), each with its blob hash.
PullRequestFile == [filename : FileNames, sha : Shas]

Listings ==
    UNION { { s \in [1..n -> PullRequestFile] :
                \A i, j \in 1..n : i # j => s[i].filename # s[j].filename }
            : n \in 0..MaxFiles }

\* ---------------------------------------------------------------- events
Actions == {"opened", "synchronize", "closed", "edited"}
Owners == {"acme"}
Repos == {"infra"}
\* payload.pull_request.head.sha: each pull request has its own head commit.
HeadOf(number) == IF number = 7 THEN "c7" ELSE "c8"

Payloads ==
    { [action |-> a, number |-> n, head |-> HeadOf(n), owner |-> o, repo |-> r] :
        a \in Actions, n \in PRs, o \in Owners, r \in Repos }
NoPayload == [action |-> "none", number |-> 0, head |-> "", owner |-> "", repo |-> ""]

\* The 'synchronize' payload of pull request 7.
Synchronize7 ==
    CHOOSE pl \in Payloads : pl.action = "synchronize" /\ pl.number = 7

\* ------------------------------------------------------ webhook requests
\* process.env.GITHUB_WEBHOOK_SECRET, and a secret a stranger may try.
WEBHOOK_SECRET == "s3cret"
Secrets == {WEBHOOK_SECRET, "guess"}

\* The 'closed' payload of pull request 7.
Closed7 ==
    CHOOSE pl \in Payloads : pl.action = "closed" /\ pl.number = 7

\* payload.installation.id: an installation id, 0, or no installation at all.
Installations == {11, 12}
Bodies == [payload : {Synchronize7, Closed7}, installation : {<<>>, <<0>>, <<11>>}]
NoBody == [payload |-> NoPayload, installation |-> <<>>]

\* 'sha256=' followed by the HMAC-SHA256 of the raw body under the secret:
\* two digests are equal only for the same secret and the same body.
sign(secret, rawBody) == <<"sha256=", secret, rawBody>>

\* The x-hub-signature-256 header: absent, or the digest some sender
\* computed from the secret it holds and the body it signed.
Signatures == {<<>>} \cup { sign(s, b) : s \in Secrets, b \in Bodies }
Events == {"pull_request", "push"}
Requests == [signature : Signatures, event : Events, body : Bodies]
NoRequest == [signature |-> <<>>, event |-> "", body |-> NoBody]

\* --------------------------------------------------- installation tokens
\* The provider PRServiceFactory hands to every GitHubPRService; the other
\* providers are never constructed by the program.
githubSharedTokenManager == 0
Providers == 0..NumProcs
NoToken == [token |-> 0, expiresAt |-> 0]
\* A cached token is used only while it expires more than Buffer ms ahead.
Buffer == 30000
\* Date.now(), in ms.
Times == 0..MaxTime
\* How long after its issue a token expires: at the buffer and just above.
Lifetimes == { Buffer + d : d \in 0..2 }
NoCall == [pc |-> "idle", manager |-> 0, installationId |-> 0, at |-> 0, token |-> 0]

\* ------------------------------------------------------- comment ids
\* The provider's comment id is a number; the table keeps it as the decimal
\* string of response.data.id.toString() and updateReviewComment turns it
\* back with parseInt(commentId, 10).
Digits == <<"0", "1", "2", "3", "4", "5", "6", "7", "8", "9">>

RECURSIVE toString(_)
toString(n) ==
    IF n < 10 THEN <<Digits[n + 1]>>
    ELSE toString(n \div 10) \o <<Digits[(n % 10) + 1]>>

DigitValue(c) == CHOOSE d \in 0..9 : Digits[d + 1] = c

RECURSIVE parseInt(_)
parseInt(s) ==
    IF Len(s) = 0 THEN 0
    ELSE 10 * parseInt(SubSeq(s, 1, Len(s) - 1)) + DigitValue(s[Len(s)])

\* ------------------------------------------------- table PRReviewComment
KeyPerPull(pl, file) ==
    <<"GitHub", pl.repo, pl.owner, <<Digits[pl.number + 1]>> \o file.filename>>

\* The composite key @@unique([provider, repo, owner, filePath]).
Key(pl, file) == <<"GitHub", pl.repo, pl.owner, file.filename>>

NoRecord == [key |-> <<>>, fileSha |-> 0, commentId |-> <<>>]

RowsOf(rows, key) == { r \in rows : r.key = key }

\* prisma.pRReviewComment.findUnique: the row with the key, or null.
findUnique(rows, key) ==
    IF RowsOf(rows, key) = {} THEN NoRecord
    ELSE CHOOSE r \in RowsOf(rows, key) : TRUE

updateRowIgnored(rows, key, sha) == rows

updateRowDeletes(rows, key, sha) == { r \in rows : r.key # key }

\* prisma.pRReviewComment.update({where: key, data: {fileSha}}).
updateRow(rows, key, sha) ==
    { IF r.key = key THEN [r EXCEPT !.fileSha = sha] ELSE r : r \in rows }

upsertRowAlwaysInsert(rows, key, sha, id) ==
    rows \cup { [key |-> key, fileSha |-> sha, commentId |-> id] }

upsertRowNoCreate(rows, key, sha, id) ==
    { IF r.key = key THEN [r EXCEPT !.fileSha = sha, !.commentId = id]
      ELSE r : r \in rows }

upsertRowKeepsId(rows, key, sha, id) ==
    IF RowsOf(rows, key) = {}
    THEN rows \cup { [key |-> key, fileSha |-> sha, commentId |-> id] }
    ELSE updateRow(rows, key, sha)

\* prisma.pRReviewComment.upsert({where: key, update: {fileSha, commentId},
\* create: {...key, fileSha, commentId}}).
upsertRow(rows, key, sha, id) ==
    IF RowsOf(rows, key) = {}
    THEN rows \cup { [key |-> key, fileSha |-> sha, commentId |-> id] }
    ELSE { IF r.key = key THEN [r EXCEPT !.fileSha = sha, !.commentId = id]
           ELSE r : r \in rows }

\* ------------------------------------------------------ review text
\* The values getFileReview can resolve to, each with whether the text
\* source worked (ok) or reported a failure: the mock text, the text for a
\* missing AI_WORKFLOW_URL, the review of the response, the text for a
\* response without review, the text for a failed request.  process.env is
\* read at every call, so each call may take any of them.  It has no path
\* that throws.
getFileReview ==
    { [text |-> "Mock review", ok |-> TRUE],
      [text |-> "AI review unavailable.", ok |-> FALSE],
      [text |-> "review", ok |-> TRUE],
      [text |-> "No review provided.", ok |-> TRUE],
      [text |-> "Error generating review.", ok |-> FALSE] }

\* ReviewFormatter.formatReview reads .summary, .security and .bestPractices
\* of its argument; getFileReview hands it a string, which has none of them,
\* so the template renders the three fields as 'undefined'.
formatReview(review) ==
    <<"### File Review", "undefined", "undefined", "undefined">>

\* ----------------------------------------------------------------- state
VARIABLES
    rows,            \* table PRReviewComment
    comments,        \* review comments the system created at the provider
    nextId,          \* id the provider gives to the next created comment
    pc,              \* where each delivery is in handlePullRequestEvent
    payload,         \* its payload
    terraformFiles,  \* files.filter(...)
    idx,             \* position of the for-of loop in terraformFiles
    formattedReview, \* processFile's formattedReview
    existingRecord,  \* processFile's existingRecord
    newCommentId,    \* processFile's newCommentId
    result,          \* how the promise of handlePullRequestEvent settled
    log,             \* the listing call, then the calls made for the file at hand
    pre,             \* the table when the event started
    req,             \* the webhook request each handleWebhook call works on
    wpc,             \* where each handleWebhook call is
    response,        \* the status codes sent on the request's response
    errors,          \* what console.error printed for the request
    service,         \* the service PRServiceFactory.createService returned
    up,              \* the server process is running
    tokenCache,      \* tokenCache of each GitHubInstallationTokenProvider
    now,             \* Date.now()
    issued,          \* the installation tokens GitHub has issued
    call             \* each getToken call: its arguments, reads and result

web == <<req, wpc, response, errors, service, up>>

tokens == <<tokenCache, now, issued, call>>

handler == <<rows, comments, nextId, pc, payload,
             terraformFiles, idx, formattedReview, existingRecord, newCommentId,
             result, log, pre>>

vars == <<rows, comments, nextId, pc, payload,
          terraformFiles, idx, formattedReview, existingRecord, newCommentId,
          result, log, pre,
          req, wpc, response, errors, service, up,
          tokenCache, now, issued, call>>

shared == <<rows, comments, nextId>>

\* A logged call: its kind, the file it is for, whether it returned (ok) or
\* threw, and the comment id it carried or returned (for the listing: the
\* number of files listed).
Entry(op, name, ok, n) == [op |-> op, file |-> name, ok |-> ok, n |-> n]

Init ==
    /\ rows = {}
    /\ comments = {}
    /\ nextId = 1
    /\ pc = [p \in Procs |-> "idle"]
    /\ payload = [p \in Procs |-> NoPayload]
    /\ terraformFiles = [p \in Procs |-> <<>>]
    /\ idx = [p \in Procs |-> 0]
    /\ formattedReview = [p \in Procs |-> <<>>]
    /\ existingRecord = [p \in Procs |-> NoRecord]
    /\ newCommentId = [p \in Procs |-> <<>>]
    /\ result = [p \in Procs |-> "none"]
    /\ log = [p \in Procs |-> <<>>]
    /\ pre = [p \in Procs |-> {}]
    /\ req = [p \in Procs |-> NoRequest]
    /\ wpc = [p \in Procs |-> "idle"]
    /\ response = [p \in Procs |-> <<>>]
    /\ errors = [p \in Procs |-> <<>>]
    /\ service = [p \in Procs |-> <<>>]
    /\ up = TRUE
    /\ tokenCache = [m \in Providers |-> [i \in Installations |-> NoToken]]
    /\ now = 0
    /\ issued = {}
    /\ call = [p \in Procs |-> NoCall]

\* ------------------------------------------------------------- helpers
fileFromEnd(p) == terraformFiles[p][Len(terraformFiles[p]) - idx[p] + 1]

\* The file the for-of loop is at.
file(p) == terraformFiles[p][idx[p]]

Logged(p, e) == log' = [log EXCEPT ![p] = Append(@, e)]

\* The promise of handlePullRequestEvent settles; res is how.
Settles(p, res) ==
    /\ pc' = [pc EXCEPT ![p] = "done"]
    /\ result' = [result EXCEPT ![p] = res]

\* An exception leaves processFile and the for-of loop: nothing catches it
\* before the promise of handlePullRequestEvent, which rejects.
Throws(p) ==
    /\ Settles(p, "rejected")
    /\ UNCHANGED <<idx, formattedReview, existingRecord, newCommentId>>

ReturnsSameFile(p) ==
    /\ formattedReview' = [formattedReview EXCEPT ![p] = <<>>]
    /\ existingRecord' = [existingRecord EXCEPT ![p] = NoRecord]
    /\ newCommentId' = [newCommentId EXCEPT ![p] = <<>>]
    /\ IF idx[p] < Len(terraformFiles[p])
       THEN /\ idx' = idx
            /\ pc' = [pc EXCEPT ![p] = "review"]
            /\ UNCHANGED result
       ELSE /\ idx' = idx
            /\ Settles(p, "resolved")

\* processFile returned: the for-of loop takes the next file, or ends.
Returns(p) ==
    /\ formattedReview' = [formattedReview EXCEPT ![p] = <<>>]
    /\ existingRecord' = [existingRecord EXCEPT ![p] = NoRecord]
    /\ newCommentId' = [newCommentId EXCEPT ![p] = <<>>]
    /\ IF idx[p] < Len(terraformFiles[p])
       THEN /\ idx' = [idx EXCEPT ![p] = @ + 1]
            /\ pc' = [pc EXCEPT ![p] = "review"]
            /\ UNCHANGED result
       ELSE /\ idx' = idx
            /\ Settles(p, "resolved")

\* ------------------------------------------- PRHandler.handlePullRequestEvent
handlePullRequestEventAnyOpen(p) ==
    /\ pc[p] = "idle"
    /\ \A q \in Procs : q < p => pc[q] # "idle"
    /\ \E pl \in Payloads :
         /\ payload' = [payload EXCEPT ![p] = pl]
         /\ IF pl.action # "closed"
            THEN /\ pc' = [pc EXCEPT ![p] = "list"]
                 /\ UNCHANGED result
            ELSE Settles(p, "resolved")
    /\ pre' = [pre EXCEPT ![p] = rows]
    /\ log' = [log EXCEPT ![p] = <<>>]
    /\ UNCHANGED <<shared, terraformFiles, idx, formattedReview,
                   existingRecord, newCommentId>>

\* A delivery enters handlePullRequestEvent with its payload.  Only 'opened'
\* and 'synchronize' go on to list the files; any other action resolves.
handles(p, pl) ==
    /\ pc[p] = "idle"
    /\ \A q \in Procs : q < p => pc[q] # "idle"
    /\ payload' = [payload EXCEPT ![p] = pl]
    /\ IF pl.action = "opened" \/ pl.action = "synchronize"
       THEN /\ pc' = [pc EXCEPT ![p] = "list"]
            /\ UNCHANGED result
       ELSE Settles(p, "resolved")
    /\ pre' = [pre EXCEPT ![p] = rows]
    /\ log' = [log EXCEPT ![p] = <<>>]
    /\ UNCHANGED <<shared, terraformFiles, idx, formattedReview,
                   existingRecord, newCommentId>>

handlePullRequestEvent(p) ==
    /\ pc[p] = "idle"
    /\ \E pl \in Payloads : handles(p, pl)

\* await prService.listPullRequestFiles(prNumber) returned; the '.tf' filter
\* is applied and the loop starts, or the event resolves with nothing to do.
lists(p, files) ==
    /\ pc[p] = "list"
    /\ terraformFiles' = [terraformFiles EXCEPT ![p] = SelectSeq(files, isTerraform)]
    /\ Logged(p, Entry("list", <<>>, TRUE, Len(files)))
    /\ IF Len(terraformFiles'[p]) = 0
       THEN /\ Settles(p, "resolved")
            /\ idx' = idx
       ELSE /\ pc' = [pc EXCEPT ![p] = "review"]
            /\ idx' = [idx EXCEPT ![p] = 1]
            /\ UNCHANGED result
    /\ UNCHANGED <<shared, payload, formattedReview, existingRecord, newCommentId, pre>>

listPullRequestFilesOk(p) ==
    /\ pc[p] = "list"
    /\ \E files \in Listings : lists(p, files)

listPullRequestFilesFailSwallowed(p) ==
    /\ pc[p] = "list"
    /\ Logged(p, Entry("list", <<>>, FALSE, 0))
    /\ Settles(p, "resolved")
    /\ UNCHANGED <<shared, payload, terraformFiles, idx, formattedReview,
                   existingRecord, newCommentId, pre>>

\* listPullRequestFiles threw (token, network or API error).
listPullRequestFilesFail(p) ==
    /\ pc[p] = "list"
    /\ Logged(p, Entry("list", <<>>, FALSE, 0))
    /\ Throws(p)
    /\ UNCHANGED <<shared, payload, terraformFiles, pre>>

\* ---------------------------------------------------------------- processFile
requestReviewThrows(p) ==
    /\ pc[p] = "review"
    /\ \E aiReview \in getFileReview :
         /\ log' = [log EXCEPT ![p] = <<Entry("review", file(p).filename, aiReview.ok, 0)>>]
         /\ IF aiReview.ok
            THEN /\ formattedReview' = [formattedReview EXCEPT ![p] = formatReview(aiReview.text)]
                 /\ pc' = [pc EXCEPT ![p] = "find"]
                 /\ UNCHANGED <<idx, existingRecord, newCommentId, result>>
            ELSE Throws(p)
    /\ UNCHANGED <<shared, payload, terraformFiles, pre>>

\* const aiReview = await AIReviewService.getFileReview(file.filename)
requestReview(p) ==
    /\ pc[p] = "review"
    /\ \E aiReview \in getFileReview :
         /\ formattedReview' = [formattedReview EXCEPT ![p] = formatReview(aiReview.text)]
         /\ log' = [log EXCEPT ![p] = <<Entry("review", file(p).filename, aiReview.ok, 0)>>]
    /\ pc' = [pc EXCEPT ![p] = "find"]
    /\ UNCHANGED <<shared, payload, terraformFiles, idx,
                   existingRecord, newCommentId, result, pre>>

unchangedNever(rec, f) == FALSE

unchangedAnyRecord(rec, f) == rec # NoRecord

\* existingRecord && existingRecord.fileSha === file.sha
unchanged(rec, f) == rec # NoRecord /\ rec.fileSha = f.sha

\* await prisma.pRReviewComment.findUnique(...) returned, and the branch on
\* its result: skip, update the existing comment, or post a new one.
findUniqueOk(p) ==
    LET rec == findUnique(rows, Key(payload[p], file(p))) IN
    /\ pc[p] = "find"
    /\ Logged(p, Entry("find", file(p).filename, TRUE, 0))
    /\ IF unchanged(rec, file(p))
       THEN Returns(p)
       ELSE /\ existingRecord' = [existingRecord EXCEPT ![p] = rec]
            /\ pc' = [pc EXCEPT ![p] = IF rec # NoRecord THEN "update" ELSE "post"]
            /\ UNCHANGED <<idx, formattedReview, newCommentId, result>>
    /\ UNCHANGED <<shared, payload, terraformFiles, pre>>

findUniqueFail(p) ==
    /\ pc[p] = "find"
    /\ Logged(p, Entry("find", file(p).filename, FALSE, 0))
    /\ Throws(p)
    /\ UNCHANGED <<shared, payload, terraformFiles, pre>>

\* await prService.updateReviewComment(existingRecord.commentId, text)
\* returned: the comment exists at the provider and now carries the text.
updateReviewCommentOk(p) ==
    LET id == parseInt(existingRecord[p].commentId) IN
    /\ pc[p] = "update"
    /\ \E c \in comments : c.id = id
    /\ comments' = { IF c.id = id
                     THEN [c EXCEPT !.body = formattedReview[p]]
                     ELSE c : c \in comments }
    /\ Logged(p, Entry("updateComment", file(p).filename, TRUE, id))
    /\ pc' = [pc EXCEPT ![p] = "dbupdate"]
    /\ UNCHANGED <<rows, nextId, payload, terraformFiles,
                   idx, formattedReview, existingRecord, newCommentId, result, pre>>

updateReviewCommentFailRetries(p) ==
    /\ pc[p] = "update"
    /\ Logged(p, Entry("updateComment", file(p).filename, FALSE,
                       parseInt(existingRecord[p].commentId)))
    /\ UNCHANGED <<shared, pc, payload, terraformFiles, idx, formattedReview,
                   existingRecord, newCommentId, result, pre>>

updateReviewCommentFailHashFirst(p) ==
    /\ pc[p] = "update"
    /\ Logged(p, Entry("updateComment", file(p).filename, FALSE,
                       parseInt(existingRecord[p].commentId)))
    /\ rows' = updateRow(rows, Key(payload[p], file(p)), file(p).sha)
    /\ pc' = [pc EXCEPT ![p] = "post"]
    /\ UNCHANGED <<comments, nextId, payload, terraformFiles, idx,
                   formattedReview, existingRecord, newCommentId, result, pre>>

\* updateReviewComment threw: the comment is gone, or the token or the
\* request failed.  The catch block falls through to the new comment.
updateReviewCommentFail(p) ==
    /\ pc[p] = "update"
    /\ Logged(p, Entry("updateComment", file(p).filename, FALSE,
                       parseInt(existingRecord[p].commentId)))
    /\ pc' = [pc EXCEPT ![p] = "post"]
    /\ UNCHANGED <<shared, payload, terraformFiles, idx, formattedReview,
                   existingRecord, newCommentId, result, pre>>

\* await prisma.pRReviewComment.update(...) returned; processFile returns.
updateOk(p) ==
    /\ pc[p] = "dbupdate"
    /\ RowsOf(rows, Key(payload[p], file(p))) # {}
    /\ rows' = updateRow(rows, Key(payload[p], file(p)), file(p).sha)
    /\ Logged(p, Entry("update", file(p).filename, TRUE, 0))
    /\ Returns(p)
    /\ UNCHANGED <<comments, nextId, payload,
                   terraformFiles, pre>>

\* prisma update threw inside the same try block: the same catch block
\* falls through to the new comment.
updateFail(p) ==
    /\ pc[p] = "dbupdate"
    /\ Logged(p, Entry("update", file(p).filename, FALSE, 0))
    /\ pc' = [pc EXCEPT ![p] = "post"]
    /\ UNCHANGED <<shared, payload, terraformFiles, idx, formattedReview,
                   existingRecord, newCommentId, result, pre>>

\* The delivery that entered the handler last among those inside it.
Latest == CHOOSE q \in Procs : pc[q] # "idle" /\ \A r \in Procs : pc[r] # "idle" => r <= q

postFileLevelReviewCommentOkLatest(p) ==
    /\ pc[p] = "post"
    /\ nextId <= MaxComments
    /\ comments' = comments \cup
          { [id |-> nextId, owner |-> payload[p].owner, repo |-> payload[p].repo,
             pr |-> payload[Latest].number, commit |-> payload[Latest].head,
             path |-> file(p).filename, body |-> formattedReview[p]] }
    /\ nextId' = nextId + 1
    /\ newCommentId' = [newCommentId EXCEPT ![p] = toString(nextId)]
    /\ Logged(p, Entry("post", file(p).filename, TRUE, nextId))
    /\ pc' = [pc EXCEPT ![p] = "upsert"]
    /\ UNCHANGED <<rows, payload, terraformFiles, idx,
                   formattedReview, existingRecord, result, pre>>

\* await prService.postFileLevelReviewComment(number, text, head.sha, path)
\* returned the id of the comment the provider created.
postFileLevelReviewCommentOk(p) ==
    /\ pc[p] = "post"
    /\ nextId <= MaxComments
    /\ comments' = comments \cup
          { [id |-> nextId, owner |-> payload[p].owner, repo |-> payload[p].repo,
             pr |-> payload[p].number, commit |-> payload[p].head,
             path |-> file(p).filename, body |-> formattedReview[p]] }
    /\ nextId' = nextId + 1
    /\ newCommentId' = [newCommentId EXCEPT ![p] = toString(nextId)]
    /\ Logged(p, Entry("post", file(p).filename, TRUE, nextId))
    /\ pc' = [pc EXCEPT ![p] = "upsert"]
    /\ UNCHANGED <<rows, payload, terraformFiles, idx,
                   formattedReview, existingRecord, result, pre>>

postFileLevelReviewCommentFailRecords(p) ==
    /\ pc[p] = "post"
    /\ Logged(p, Entry("post", file(p).filename, FALSE, 0))
    /\ rows' = upsertRow(rows, Key(payload[p], file(p)), file(p).sha,
                         existingRecord[p].commentId)
    /\ Throws(p)
    /\ UNCHANGED <<comments, nextId, payload, terraformFiles, pre>>

\* postFileLevelReviewComment threw: nothing catches it in processFile.
postFileLevelReviewCommentFail(p) ==
    /\ pc[p] = "post"
    /\ Logged(p, Entry("post", file(p).filename, FALSE, 0))
    /\ Throws(p)
    /\ UNCHANGED <<shared, payload, terraformFiles, pre>>

upsertOkNextId(p) ==
    /\ pc[p] = "upsert"
    /\ rows' = upsertRow(rows, Key(payload[p], file(p)), file(p).sha,
                         toString(nextId))
    /\ Logged(p, Entry("upsert", file(p).filename, TRUE, parseInt(newCommentId[p])))
    /\ Returns(p)
    /\ UNCHANGED <<comments, nextId, payload,
                   terraformFiles, pre>>

\* await prisma.pRReviewComment.upsert(...) returned; processFile returns.
upsertOk(p) ==
    /\ pc[p] = "upsert"
    /\ rows' = upsertRow(rows, Key(payload[p], file(p)), file(p).sha,
                         newCommentId[p])
    /\ Logged(p, Entry("upsert", file(p).filename, TRUE, parseInt(newCommentId[p])))
    /\ Returns(p)
    /\ UNCHANGED <<comments, nextId, payload,
                   terraformFiles, pre>>

upsertFail(p) ==
    /\ pc[p] = "upsert"
    /\ Logged(p, Entry("upsert", file(p).filename, FALSE, parseInt(newCommentId[p])))
    /\ Throws(p)
    /\ UNCHANGED <<shared, payload, terraformFiles, pre>>

\* The .then/.catch of handleWebhook ran: the delivery is over.
settled(p) ==
    /\ pc[p] = "done"
    /\ pc' = [pc EXCEPT ![p] = "idle"]
    /\ payload' = [payload EXCEPT ![p] = NoPayload]
    /\ terraformFiles' = [terraformFiles EXCEPT ![p] = <<>>]
    /\ idx' = [idx EXCEPT ![p] = 0]
    /\ formattedReview' = [formattedReview EXCEPT ![p] = <<>>]
    /\ existingRecord' = [existingRecord EXCEPT ![p] = NoRecord]
    /\ newCommentId' = [newCommentId EXCEPT ![p] = <<>>]
    /\ result' = [result EXCEPT ![p] = "none"]
    /\ log' = [log EXCEPT ![p] = <<>>]
    /\ pre' = [pre EXCEPT ![p] = {}]
    /\ UNCHANGED shared

\* One step of a delivery that is inside the handler.
step(p) ==
    \/ listPullRequestFilesOk(p)
    \/ listPullRequestFilesFail(p)
    \/ requestReview(p)
    \/ findUniqueOk(p)
    \/ findUniqueFail(p)
    \/ updateReviewCommentOk(p)
    \/ updateReviewCommentFail(p)
    \/ updateOk(p)
    \/ updateFail(p)
    \/ postFileLevelReviewCommentOk(p)
    \/ postFileLevelReviewCommentFail(p)
    \/ upsertOk(p)
    \/ upsertFail(p)
    \/ settled(p)

\* Deliveries one at a time, all of pull request 7: an event enters the
\* handler only when no other event is in it.
Next ==
    \/ \E p \in Procs :
          /\ \A q \in Procs : pc[q] = "idle"
          /\ handlePullRequestEvent(p)
          /\ payload'[p].number = 7
          /\ UNCHANGED <<web, tokens>>
    \/ \E p \in Procs : step(p) /\ UNCHANGED <<web, tokens>>

Spec == Init /\ [][Next]_vars

\* Every call a delivery awaits settles, and the handler then goes on: a
\* delivery inside the handler takes its next step.
FairSpec == Spec /\ \A p \in Procs : WF_vars(step(p) /\ UNCHANGED <<web, tokens>>)

\* ------------------------------------------------- overlapping deliveries
\* handleWebhook answers 200 and does not await handlePullRequestEvent, so a
\* second delivery can enter the handler while the first is at one of its
\* awaits; the steps of the two then interleave in any order.  Two
\* deliveries at a time are followed, each a 'synchronize' of a pull request
\* whose only file is main.tf, so that both work on the same record.  The
\* text source answers; the listing and the lookup succeed.
Joins(p, pl) ==
    /\ \A q, r \in Procs : pc[q] # "idle" /\ pc[r] # "idle" => q = r
    /\ handles(p, pl)

\* Both deliveries are of pull request 7.
Overlapping(p) == Joins(p, Synchronize7)

OneFile(p) ==
    \E sha \in Shas : lists(p, << [filename |-> mainTf, sha |-> sha] >>)

ConcStep ==
    \/ \E p \in Procs : OneFile(p) /\ UNCHANGED <<web, tokens>>
    \/ \E p \in Procs : requestReview(p) /\ log'[p][1].ok /\ UNCHANGED <<web, tokens>>
    \/ \E p \in Procs : findUniqueOk(p) /\ UNCHANGED <<web, tokens>>
    \/ \E p \in Procs : updateReviewCommentOk(p) /\ UNCHANGED <<web, tokens>>
    \/ \E p \in Procs : updateReviewCommentFail(p) /\ UNCHANGED <<web, tokens>>
    \/ \E p \in Procs : updateOk(p) /\ UNCHANGED <<web, tokens>>
    \/ \E p \in Procs : updateFail(p) /\ UNCHANGED <<web, tokens>>
    \/ \E p \in Procs : postFileLevelReviewCommentOk(p) /\ UNCHANGED <<web, tokens>>
    \/ \E p \in Procs : postFileLevelReviewCommentFail(p) /\ UNCHANGED <<web, tokens>>
    \/ \E p \in Procs : upsertOk(p) /\ UNCHANGED <<web, tokens>>
    \/ \E p \in Procs : upsertFail(p) /\ UNCHANGED <<web, tokens>>
    \/ \E p \in Procs : settled(p) /\ UNCHANGED <<web, tokens>>

ConcNext ==
    \/ \E p \in Procs : Overlapping(p) /\ UNCHANGED <<web, tokens>>
    \/ ConcStep

ConcSpec == Init /\ [][ConcNext]_vars

\* Overlapping deliveries of the two pull requests of the repository, which
\* both change main.tf.  Every call succeeds.
CrossNext ==
    \/ \E p \in Procs : \E pl \in Payloads :
          pl.action = "synchronize" /\ Joins(p, pl) /\ UNCHANGED <<web, tokens>>
    \/ \E p \in Procs : OneFile(p) /\ UNCHANGED <<web, tokens>>
    \/ \E p \in Procs : requestReview(p) /\ log'[p][1].ok /\ UNCHANGED <<web, tokens>>
    \/ \E p \in Procs : findUniqueOk(p) /\ UNCHANGED <<web, tokens>>
    \/ \E p \in Procs : updateReviewCommentOk(p) /\ UNCHANGED <<web, tokens>>
    \/ \E p \in Procs : updateOk(p) /\ UNCHANGED <<web, tokens>>
    \/ \E p \in Procs : postFileLevelReviewCommentOk(p) /\ UNCHANGED <<web, tokens>>
    \/ \E p \in Procs : upsertOk(p) /\ UNCHANGED <<web, tokens>>
    \/ \E p \in Procs : settled(p) /\ UNCHANGED <<web, tokens>>

CrossSpec == Init /\ [][CrossNext]_vars

\* ============================================================ the webhook
verifySignatureHeaderOnly(r) == r.signature # <<>>

\* verifySignature returns (TRUE) or throws (FALSE).
verifySignature(r) ==
    /\ r.signature # <<>>
    /\ r.signature = sign(WEBHOOK_SECRET, r.body)

\* PRServiceFactory.createService('github', ...): the service, or nothing
\* when it throws.
createService(owner, repo, installationId) ==
    IF owner = "" \/ repo = "" \/ installationId = 0
    THEN <<>>
    ELSE << [owner |-> owner, repo |-> repo, installationId |-> installationId,
             tokenManager |-> githubSharedTokenManager] >>

Responds(p, status) == response' = [response EXCEPT ![p] = Append(@, status)]

\* The catch block of handleWebhook.
Caught(p) ==
    /\ errors' = [errors EXCEPT ![p] = Append(@, "Webhook processing error")]
    /\ Responds(p, 500)
    /\ wpc' = [wpc EXCEPT ![p] = "returned"]

\* Express calls handleWebhook with request r.
receives(p, r) ==
    /\ up
    /\ \A q \in Procs : pc[q] = "idle" /\ wpc[q] \in {"idle", "returned"}
    /\ \A q \in Procs : p <= q
    /\ req' = [req EXCEPT ![p] = r]
    /\ wpc' = [wpc EXCEPT ![p] = "verify"]
    /\ response' = [response EXCEPT ![p] = <<>>]
    /\ errors' = [errors EXCEPT ![p] = <<>>]
    /\ service' = [service EXCEPT ![p] = <<>>]
    /\ UNCHANGED <<handler, up, tokens>>

handleWebhook(p) ==
    /\ wpc[p] \in {"idle", "returned"}
    /\ \E r \in Requests : receives(p, r)

verifySignatureThrows(p) ==
    /\ up
    /\ wpc[p] = "verify"
    /\ ~verifySignature(req[p])
    /\ Caught(p)
    /\ UNCHANGED <<handler, req, service, up, tokens>>

\* An event other than pull_request is acknowledged and nothing else.
otherEvent(p) ==
    /\ up
    /\ wpc[p] = "verify"
    /\ verifySignature(req[p])
    /\ req[p].event # "pull_request"
    /\ Responds(p, 200)
    /\ wpc' = [wpc EXCEPT ![p] = "returned"]
    /\ UNCHANGED <<handler, req, errors, service, up, tokens>>

\* The service the pull_request branch asks the factory for; reading
\* payload.installation.id throws when the payload has no installation.
serviceFor(r) ==
    IF r.body.installation = <<>>
    THEN <<>>
    ELSE createService(r.body.payload.owner, r.body.payload.repo,
                       r.body.installation[1])

createServiceThrowsAcknowledged(p) ==
    /\ up
    /\ wpc[p] = "verify"
    /\ verifySignature(req[p])
    /\ req[p].event = "pull_request"
    /\ serviceFor(req[p]) = <<>>
    /\ errors' = [errors EXCEPT ![p] = Append(@, "Webhook processing error")]
    /\ response' = [response EXCEPT ![p] = Append(Append(@, 200), 500)]
    /\ wpc' = [wpc EXCEPT ![p] = "returned"]
    /\ UNCHANGED <<handler, req, service, up, tokens>>

createServiceThrows(p) ==
    /\ up
    /\ wpc[p] = "verify"
    /\ verifySignature(req[p])
    /\ req[p].event = "pull_request"
    /\ serviceFor(req[p]) = <<>>
    /\ Caught(p)
    /\ UNCHANGED <<handler, req, service, up, tokens>>

createServiceOk(p) ==
    /\ up
    /\ wpc[p] = "verify"
    /\ verifySignature(req[p])
    /\ req[p].event = "pull_request"
    /\ serviceFor(req[p]) # <<>>
    /\ service' = [service EXCEPT ![p] = serviceFor(req[p])]
    /\ wpc' = [wpc EXCEPT ![p] = "created"]
    /\ UNCHANGED <<handler, req, response, errors, up, tokens>>

\* res.status(200).send('Webhook received')
acknowledges(p) ==
    /\ up
    /\ wpc[p] = "created"
    /\ Responds(p, 200)
    /\ wpc' = [wpc EXCEPT ![p] = "acked"]
    /\ UNCHANGED <<handler, req, errors, service, up, tokens>>

delegatesUnacknowledged(p) ==
    /\ up
    /\ wpc[p] = "created"
    /\ handles(p, req[p].body.payload)
    /\ wpc' = [wpc EXCEPT ![p] = "returned"]
    /\ UNCHANGED <<req, response, errors, service, up, tokens>>

\* PRHandler.handlePullRequestEvent(payload, githubService) is called and
\* handleWebhook returns; the processing goes on by itself.
delegates(p) ==
    /\ up
    /\ wpc[p] = "acked"
    /\ handles(p, req[p].body.payload)
    /\ wpc' = [wpc EXCEPT ![p] = "returned"]
    /\ UNCHANGED <<req, response, errors, service, up, tokens>>

thenCatchUnhandled(p) ==
    /\ up
    /\ up' = (result[p] # "rejected")
    /\ settled(p)
    /\ UNCHANGED <<req, wpc, response, errors, service, tokens>>

\* The promise of handlePullRequestEvent settled: .then logs the success,
\* .catch prints the error.
thenCatch(p) ==
    /\ up
    /\ errors' = IF result[p] = "rejected"
                 THEN [errors EXCEPT ![p] = Append(@, "Error processing webhook event")]
                 ELSE errors
    /\ settled(p)
    /\ UNCHANGED <<req, wpc, response, service, up, tokens>>

\* The awaited calls of the handler of an acknowledged delivery.
WebStep ==
    \/ \E p \in Procs : OneFile(p) /\ UNCHANGED <<web, tokens>>
    \/ \E p \in Procs : listPullRequestFilesFail(p) /\ UNCHANGED <<web, tokens>>
    \/ \E p \in Procs : requestReview(p) /\ UNCHANGED <<web, tokens>>
    \/ \E p \in Procs : findUniqueOk(p) /\ UNCHANGED <<web, tokens>>
    \/ \E p \in Procs : findUniqueFail(p) /\ UNCHANGED <<web, tokens>>
    \/ \E p \in Procs : updateReviewCommentOk(p) /\ UNCHANGED <<web, tokens>>
    \/ \E p \in Procs : updateReviewCommentFail(p) /\ UNCHANGED <<web, tokens>>
    \/ \E p \in Procs : updateOk(p) /\ UNCHANGED <<web, tokens>>
    \/ \E p \in Procs : updateFail(p) /\ UNCHANGED <<web, tokens>>
    \/ \E p \in Procs : postFileLevelReviewCommentOk(p) /\ UNCHANGED <<web, tokens>>
    \/ \E p \in Procs : postFileLevelReviewCommentFail(p) /\ UNCHANGED <<web, tokens>>
    \/ \E p \in Procs : upsertOk(p) /\ UNCHANGED <<web, tokens>>
    \/ \E p \in Procs : upsertFail(p) /\ UNCHANGED <<web, tokens>>

\* Webhook requests one at a time, from the request to the settling of the
\* processing it started.
WebNext ==
    \/ \E p \in Procs : handleWebhook(p)
    \/ \E p \in Procs : verifySignatureThrows(p)
    \/ \E p \in Procs : otherEvent(p)
    \/ \E p \in Procs : createServiceThrows(p)
    \/ \E p \in Procs : createServiceOk(p)
    \/ \E p \in Procs : acknowledges(p)
    \/ \E p \in Procs : delegates(p)
    \/ \E p \in Procs : thenCatch(p)
    \/ WebStep

WebSpec == Init /\ [][WebNext]_vars

\* ================================================= installation tokens
providerOwn(p, installationId) == p

\* this.tokenManager of the GitHubPRService made for delivery p: the
\* provider the factory passed to the constructor.
provider(p, installationId) ==
    createService("acme", "infra", installationId)[1].tokenManager

validAtExpiry(cached, t) == cached # NoToken /\ cached.expiresAt >= t + Buffer

\* cached && cached.expiresAt > Date.now() + 30000
valid(cached, t) == cached # NoToken /\ cached.expiresAt > t + Buffer

\* getToken starts at the present time.  The services of
\* at most two deliveries call.
getToken(p, installationId, state, token) ==
    /\ call[p].pc # "auth"
    /\ \A q \in Procs : q < p => call[q] # NoCall
    /\ \A q \in Procs : q < p - 1 => call[p] # NoCall
    /\ call' = [call EXCEPT ![p] =
          [pc |-> state, manager |-> provider(p, installationId),
           installationId |-> installationId, at |-> now, token |-> token]]

cachedOf(p, installationId) ==
    tokenCache[provider(p, installationId)][installationId]

\* The cached token is valid: getToken returns it.
getTokenCached(p) ==
    \E i \in Installations :
        /\ valid(cachedOf(p, i), now)
        /\ getToken(p, i, "returned", cachedOf(p, i).token)
        /\ UNCHANGED <<tokenCache, now, issued, handler, web>>

\* No valid cached token and no GITHUB_PRIVATE_KEY: getToken throws.
getTokenNoKey(p) ==
    \E i \in Installations :
        /\ ~valid(cachedOf(p, i), now)
        /\ getToken(p, i, "threw", 0)
        /\ UNCHANGED <<tokenCache, now, issued, handler, web>>

\* No valid cached token: getToken awaits auth({ type: 'installation' }).
getTokenAuth(p) ==
    \E i \in Installations :
        /\ ~valid(cachedOf(p, i), now)
        /\ getToken(p, i, "auth", 0)
        /\ UNCHANGED <<tokenCache, now, issued, handler, web>>

authResolvesKeepsExpiry(p, lifetime) ==
    /\ call[p].pc = "auth"
    /\ Cardinality(issued) < MaxTokens
    /\ issued' = issued \cup
          {[installationId |-> call[p].installationId,
            token |-> Cardinality(issued) + 1, expiresAt |-> now + lifetime]}
    /\ tokenCache' = [tokenCache EXCEPT ![call[p].manager][call[p].installationId] =
          [token |-> Cardinality(issued) + 1,
           expiresAt |-> IF @ = NoToken THEN now + lifetime ELSE @.expiresAt]]
    /\ call' = [call EXCEPT ![p].pc = "returned",
                            ![p].token = Cardinality(issued) + 1]
    /\ UNCHANGED <<now, handler, web>>

authRejectsEvicts(p) ==
    /\ call[p].pc = "auth"
    /\ call' = [call EXCEPT ![p].pc = "threw"]
    /\ tokenCache' = [tokenCache EXCEPT ![call[p].manager][call[p].installationId] = NoToken]
    /\ UNCHANGED <<now, issued, handler, web>>

authResolvesUncached(p, lifetime) ==
    /\ call[p].pc = "auth"
    /\ Cardinality(issued) < MaxTokens
    /\ issued' = issued \cup
          {[installationId |-> call[p].installationId,
            token |-> Cardinality(issued) + 1, expiresAt |-> now + lifetime]}
    /\ call' = [call EXCEPT ![p].pc = "returned",
                            ![p].token = Cardinality(issued) + 1]
    /\ UNCHANGED <<tokenCache, now, handler, web>>

\* GitHub issued a token: it is cached with its expiry and returned.
authResolves(p, lifetime) ==
    /\ call[p].pc = "auth"
    /\ Cardinality(issued) < MaxTokens
    /\ issued' = issued \cup
          {[installationId |-> call[p].installationId,
            token |-> Cardinality(issued) + 1, expiresAt |-> now + lifetime]}
    /\ tokenCache' = [tokenCache EXCEPT ![call[p].manager][call[p].installationId] =
          [token |-> Cardinality(issued) + 1, expiresAt |-> now + lifetime]]
    /\ call' = [call EXCEPT ![p].pc = "returned",
                            ![p].token = Cardinality(issued) + 1]
    /\ UNCHANGED <<now, handler, web>>

\* The token request failed: getToken rejects with its error.
authRejects(p) ==
    /\ call[p].pc = "auth"
    /\ call' = [call EXCEPT ![p].pc = "threw"]
    /\ UNCHANGED <<tokenCache, now, issued, handler, web>>

\* Time passes.
tick ==
    /\ now < MaxTime
    /\ now' = now + 1
    /\ UNCHANGED <<tokenCache, issued, call, handler, web>>

\* getToken calls of the services of the deliveries, in any interleaving.
TokenNext ==
    \/ \E p \in Procs : getTokenCached(p)
    \/ \E p \in Procs : getTokenNoKey(p)
    \/ \E p \in Procs : getTokenAuth(p)
    \/ \E p \in Procs : \E lifetime \in Lifetimes : authResolves(p, lifetime)
    \/ \E p \in Procs : authRejects(p)
    \/ tick

TokenSpec == Init /\ [][TokenNext]_vars

\* =================================================================== claims
TF == <<".", "t", "f">>

\* Positions of the log of p that hold a call of kind op.
Calls(p, op) == { i \in 1..Len(log[p]) : log[p][i].op = op }
CallsOk(p, op) == { i \in Calls(p, op) : log[p][i].ok }
CallsFailed(p, op) == { i \in Calls(p, op) : ~log[p][i].ok }

\* Comment updates, comment creations and table writes in the log of p.
RemoteOrWrite(p) ==
    Calls(p, "updateComment") \cup Calls(p, "post")
        \cup Calls(p, "update") \cup Calls(p, "upsert")

ListingFailed(p) == Len(log[p]) >= 1 /\ log[p][1] = Entry("list", <<>>, FALSE, 0)

\* processFile has just ended for a file (it returned or threw): the log of
\* p is the complete list of calls made for that file.
FileDone(p) ==
    /\ pc[p] \in {"review", "done"}
    /\ Len(log[p]) >= 1
    /\ log[p][1].op = "review"

\* The file whose processFile has just ended.
doneFile(p) ==
    IF pc[p] = "review" THEN terraformFiles[p][idx[p] - 1]
    ELSE terraformFiles[p][idx[p]]

before(p) == findUnique(pre[p], Key(payload[p], doneFile(p)))
after(p) == findUnique(rows, Key(payload[p], doneFile(p)))

TextOk(p) == log[p][1].ok

\* ---- C1
\* The records of every '.tf' file of the listing already carried the
\* listing's hash when the event started.
UpToDate(p) ==
    /\ pc[p] \notin {"idle", "list"}
    /\ ~ListingFailed(p)
    /\ \A i \in 1..Len(terraformFiles[p]) :
         LET r == findUnique(pre[p], Key(payload[p], terraformFiles[p][i])) IN
         r # NoRecord /\ r.fileSha = terraformFiles[p][i].sha

\* C1: an event whose eligible files all have a record with the snapshot's
\* hash (the state a first processing of the snapshot leaves) makes no
\* updateReviewComment call, no postFileLevelReviewComment call and no
\* table write, and leaves the table as it was.
C1_Idempotence ==
    \A p \in Procs : UpToDate(p) => RemoteOrWrite(p) = {} /\ rows = pre[p]

C1_Witness ==
    \E p \in Procs :
        /\ pc[p] = "done" /\ result[p] = "resolved"
        /\ UpToDate(p)
        /\ Len(terraformFiles[p]) = 2
        /\ Calls(p, "find") # {}

\* ---- C2
FirstSeen(p) ==
    FileDone(p) /\ before(p) = NoRecord /\ TextOk(p) /\ CallsOk(p, "post") # {}

FirstSeenOutcome(p) ==
    /\ Cardinality(Calls(p, "post")) = 1
    /\ Calls(p, "updateComment") = {}
    /\ Cardinality(Calls(p, "upsert") \cup Calls(p, "update")) = 1
    /\ \E i \in CallsOk(p, "post") :
         after(p) = [key |-> Key(payload[p], doneFile(p)),
                     fileSha |-> doneFile(p).sha,
                     commentId |-> toString(log[p][i].n)]

\* C2 as stated: for a file with no prior record, when the text source and
\* the create succeed, there is one create, no update, one table write, and
\* the record then holds the snapshot's hash and the returned comment id.
C2_FirstSeenAsStated ==
    \A p \in Procs : FirstSeen(p) => FirstSeenOutcome(p)

\* C2 amended: the same, when the upsert succeeds as well.
C2_FirstSeen ==
    \A p \in Procs :
        FirstSeen(p) /\ CallsOk(p, "upsert") # {} => FirstSeenOutcome(p)

C2_Witness ==
    \E p \in Procs : FirstSeen(p) /\ CallsOk(p, "upsert") # {}

\* ---- C3
HashChanged(p) ==
    FileDone(p) /\ before(p) # NoRecord /\ before(p).fileSha # doneFile(p).sha

\* C3: for a file with record (h1, id1) and snapshot hash h2 # h1, when
\* updateReviewComment(id1) succeeds no postFileLevelReviewComment call is
\* made for the file and the record becomes (h2, id1).
C3_UpdateInPlace ==
    \A p \in Procs :
        HashChanged(p) /\ CallsOk(p, "updateComment") # {} =>
            /\ Calls(p, "post") = {}
            /\ after(p) = [before(p) EXCEPT !.fileSha = doneFile(p).sha]

\* ---- C4
UpdateFailed(p) == HashChanged(p) /\ CallsFailed(p, "updateComment") # {}

FallbackRecord(p) ==
    \A i \in CallsOk(p, "post") :
        /\ after(p) = [key |-> Key(payload[p], doneFile(p)),
                       fileSha |-> doneFile(p).sha,
                       commentId |-> toString(log[p][i].n)]
        /\ after(p).commentId # before(p).commentId

\* C4 as stated: when updateReviewComment(id1) fails exactly one create
\* follows, and if it returns id2 the record is (h2, id2), not id1.
C4_FallbackAsStated ==
    \A p \in Procs :
        UpdateFailed(p) =>
            Cardinality(Calls(p, "post")) = 1 /\ FallbackRecord(p)

\* C4 amended: when updateReviewComment(id1) fails exactly one create
\* follows; if it returns id2 and the upsert succeeds the record is
\* (h2, id2), not id1.
C4_Fallback ==
    \A p \in Procs :
        UpdateFailed(p) =>
            /\ Cardinality(Calls(p, "post")) = 1
            /\ \A i \in Calls(p, "updateComment") : \E j \in Calls(p, "post") : i < j
            /\ CallsOk(p, "upsert") # {} => FallbackRecord(p)

C4_Witness ==
    \E p \in Procs :
        UpdateFailed(p) /\ CallsOk(p, "post") # {} /\ CallsOk(p, "upsert") # {}

\* ---- C5
\* C5: when the create fails, for a file without a record or after a failed
\* updateReviewComment, the file's record is what it was before the event.
C5_FailureLeavesRecord ==
    \A p \in Procs :
        /\ FileDone(p)
        /\ CallsFailed(p, "post") # {}
        /\ before(p) = NoRecord \/ CallsFailed(p, "updateComment") # {}
        => after(p) = before(p)

C5_Witness ==
    \E p \in Procs :
        /\ FileDone(p)
        /\ before(p) # NoRecord
        /\ CallsFailed(p, "updateComment") # {}
        /\ CallsFailed(p, "post") # {}

\* ---- C6
\* C6: when the text source fails for a file, no comment is posted or
\* updated and no record is written for that file.
C6_TextFailureSkipsFile ==
    \A p \in Procs :
        Len(log[p]) >= 1 /\ log[p][1].op = "review" /\ ~log[p][1].ok
            => RemoteOrWrite(p) = {}

\* ---- C7
\* C7: a failure while processing one file does not keep the later files
\* from being processed, and the event fails only if the listing fails.
C7_PerFileIsolation ==
    \A p \in Procs :
        pc[p] = "done" =>
            /\ result[p] = "rejected" => ListingFailed(p)
            /\ ~ListingFailed(p) => idx[p] = Len(terraformFiles[p])

\* ---- C8
\* C8: a file whose path does not end in '.tf' is never the subject of a
\* text request, a table read or write or a comment call, and neither a
\* record nor a comment ever belongs to such a path.
C8_FilterExclusivity ==
    /\ \A p \in Procs : \A i \in 1..Len(log[p]) :
           log[p][i].op # "list" => endsWith(log[p][i].file, TF)
    /\ \A r \in rows : endsWith(r.key[4], TF)
    /\ \A c \in comments : endsWith(c.path, TF)

C8_Witness ==
    \E p \in Procs :
        /\ pc[p] = "review"
        /\ log[p] = <<Entry("list", <<>>, TRUE, 2)>>
        /\ Len(terraformFiles[p]) = 1
        /\ rows # {}

\* ---- C9
\* C9: when listPullRequestFiles fails the event rejects and nothing else
\* was called for it: no text request, no table read or write, no comment
\* create or update; the table is as it was.
C9_ListingFailureIsFatalAndClean ==
    \A p \in Procs :
        ListingFailed(p) =>
            /\ pc[p] = "done" /\ result[p] = "rejected"
            /\ Len(log[p]) = 1
            /\ rows = pre[p]

C9_Witness ==
    \E p \in Procs : ListingFailed(p) /\ rows # {} /\ comments # {}

\* ---- C10
\* C10: with no comment deleted from outside, each file identity (owner,
\* repo, path) has at most one live comment created by the system.
C10_SingleCommentPerFile ==
    \A c, d \in comments :
        c.owner = d.owner /\ c.repo = d.repo /\ c.path = d.path => c.id = d.id

\* ---- C11
\* The deliveries that are inside the handler.
InFlight == { p \in Procs : pc[p] \notin {"idle", "done"} }

\* C11: the commentId of every record is the id of a comment the system
\* created for the record's owner, repository and path and that exists at
\* the provider, also after failed creates, fallback creates and with two
\* deliveries interleaved.
C11_StorePointsAtLiveComment ==
    \A r \in rows :
        \E c \in comments :
            /\ toString(c.id) = r.commentId
            /\ c.repo = r.key[2] /\ c.owner = r.key[3] /\ c.path = r.key[4]

C11_Witness ==
    \E p, q \in Procs :
        /\ p # q /\ q \in InFlight
        /\ FileDone(p)
        /\ CallsFailed(p, "updateComment") # {}
        /\ CallsOk(p, "post") # {} /\ CallsOk(p, "upsert") # {}
        /\ after(p).commentId = toString(log[p][Len(log[p])].n)

\* ---- C12
\* C12: a hash-only update never lands on a record whose commentId is not
\* the one its event read and updated: no record combines the hash written
\* by one event with the commentId written by another.
C12_AtomicStoreWrites ==
    [][ \A p \in Procs :
          pc[p] = "dbupdate" /\ pc'[p] # "dbupdate" /\ rows' # rows
              => \A r \in rows' \ rows : r.commentId = existingRecord[p].commentId
      ]_vars

\* ---- C13
\* C13: the table holds at most one record per (provider, repo, owner,
\* filePath), also when two interleaved deliveries both found no record and
\* both reach the upsert.
C13_OneRecordPerKey ==
    \A r1, r2 \in rows : r1.key = r2.key => r1 = r2

\* Both deliveries found no record for the file, created a comment and
\* upserted.
C13_Witness ==
    \E p, q \in Procs :
        /\ p # q
        /\ pc[p] = "done" /\ pc[q] = "done"
        /\ FileDone(p) /\ FileDone(q)
        /\ Key(payload[p], doneFile(p)) = Key(payload[q], doneFile(q))
        /\ before(p) = NoRecord /\ before(q) = NoRecord
        /\ Calls(p, "updateComment") = {} /\ Calls(q, "updateComment") = {}
        /\ CallsOk(p, "upsert") # {} /\ CallsOk(q, "upsert") # {}

\* ---- C14
\* The file just processed had a record with the listing's hash.
UnchangedFile(p) ==
    /\ FileDone(p)
    /\ CallsOk(p, "find") # {}
    /\ before(p) # NoRecord
    /\ before(p).fileSha = doneFile(p).sha

\* C14: processing a file whose record carries the listing's hash makes no
\* text request, no comment update, no comment create and no table write;
\* the lookup is its only call.
C14_UnchangedMeansNoIO ==
    \A p \in Procs :
        UnchangedFile(p) =>
            /\ Calls(p, "review") = {}
            /\ RemoteOrWrite(p) = {}
            /\ rows = pre[p]

\* ---- C15
\* The pull request's file m.tf at its current blob hash.
HeadFile == [filename |-> mainTf, sha |-> MaxSha]

HeadKey == <<"GitHub", "infra", "acme", mainTf>>

\* An 'opened' or 'synchronize' delivery enters the handler.
Arrives ==
    \E p \in Procs :
        /\ pc[p] = "idle" /\ pc'[p] = "list"
        /\ payload'[p].action \in {"opened", "synchronize"}

\* A step in which no collaborator fails, and a listing that shows m.tf at
\* its current hash.
Succeeds ==
    \A p \in Procs :
        /\ log'[p] # log[p] /\ Len(log'[p]) > 0 => log'[p][Len(log'[p])].ok
        /\ pc[p] = "list" /\ pc'[p] # "list" =>
              \E i \in 1..Len(terraformFiles'[p]) : terraformFiles'[p][i] = HeadFile

\* The file just processed could not be posted: its create failed.
NotPosted(p) == FileDone(p) /\ CallsFailed(p, "post") # {}

\* The event looked the file up and found no record or another hash.
Stale(p) ==
    /\ FileDone(p)
    /\ CallsOk(p, "find") # {}
    /\ before(p) = NoRecord \/ before(p).fileSha # doneFile(p).sha

\* C15: a file whose create failed (with or without a failed update
\* before it) is left without a record or with a record of another hash;
\* an event that looks up a file in that state makes a comment call for
\* it; and if qualifying events keep arriving and from some point on every
\* call succeeds and the listing shows m.tf at its current hash, the
\* record of m.tf eventually carries that hash.
C15_RetryOnNextEvent ==
    /\ [](\A p \in Procs :
            /\ NotPosted(p) =>
                  after(p) = NoRecord \/ after(p).fileSha # doneFile(p).sha
            /\ Stale(p) =>
                  Calls(p, "updateComment") \cup Calls(p, "post") # {})
    /\ ([]<><<Arrives>>_vars /\ <>[][Succeeds]_vars)
          => <>(findUnique(rows, HeadKey).fileSha = HeadFile.sha)

\* Update and create both failed for m.tf at its current hash: the record
\* keeps the old hash.
C15_Witness ==
    \E p \in Procs :
        /\ NotPosted(p)
        /\ doneFile(p) = HeadFile
        /\ CallsFailed(p, "updateComment") # {}
        /\ after(p) # NoRecord
        /\ after(p).fileSha # HeadFile.sha

\* ---- C16
\* The id the create call of the file just processed returned.
CreatedId(p) == toString(log[p][CHOOSE i \in CallsOk(p, "post") : TRUE].n)

\* C16: when processing a file changes its record, the change is one of:
\* no record to (hash, new id) after a create; (h1, id1) to (h2, id1) after
\* a comment update, with no create; (h1, id1) to (h2, id2) after a failed
\* comment update and a create.
C16_ClosedStateMachine ==
    \A p \in Procs :
        FileDone(p) /\ after(p) # before(p) =>
            \/ /\ before(p) = NoRecord
               /\ CallsOk(p, "post") # {}
               /\ after(p).fileSha = doneFile(p).sha
               /\ after(p).commentId = CreatedId(p)
            \/ /\ before(p) # NoRecord
               /\ CallsOk(p, "updateComment") # {}
               /\ Calls(p, "post") = {}
               /\ after(p) = [before(p) EXCEPT !.fileSha = doneFile(p).sha]
            \/ /\ before(p) # NoRecord
               /\ CallsFailed(p, "updateComment") # {}
               /\ CallsOk(p, "post") # {}
               /\ after(p).fileSha = doneFile(p).sha
               /\ after(p).commentId = CreatedId(p)
               /\ after(p).commentId # before(p).commentId

\* ---- C17
\* C17: no step removes a record: a key that has a row has one after every
\* step.
C17_RecordsNeverDeleted ==
    [][ \A r \in rows : \E r2 \in rows' : r2.key = r.key ]_vars

\* A record outlived an event that failed on its file.
C17_Witness ==
    \E p \in Procs :
        /\ FileDone(p)
        /\ result[p] = "rejected"
        /\ before(p) # NoRecord
        /\ after(p) # NoRecord

\* ---- C18
\* The places of processFile after its text request.
InFile == {"find", "update", "dbupdate", "post", "upsert"}

\* C18: the for-of loop takes the files of terraformFiles (the listing in
\* the provider's order, filtered) one after the other from the first:
\* every call is for the file the loop is at, the loop moves on by one
\* file and only when processFile has returned, and an event that has
\* files resolves only after the last of them.
C18_SequentialOrderedProcessing ==
    [][ \A p \in Procs :
          /\ pc'[p] \in InFile =>
                \A i \in 1..Len(log'[p]) :
                    log'[p][i].file = terraformFiles'[p][idx'[p]].filename
          /\ idx'[p] # idx[p] =>
                \/ pc[p] = "list" /\ idx'[p] = 1
                \/ pc[p] = "done" /\ idx'[p] = 0
                \/ /\ idx'[p] = idx[p] + 1
                   /\ pc[p] \in {"find", "dbupdate", "upsert"}
                   /\ pc'[p] = "review"
                   /\ log'[p][Len(log'[p])].ok
          /\ pc'[p] = "done" /\ result'[p] = "resolved"
                /\ Len(terraformFiles'[p]) > 0
                => idx'[p] = Len(terraformFiles'[p])
      ]_vars

\* The first of two files is done with a new comment and a record, and the
\* second has not started.
C18_Witness ==
    \E p \in Procs :
        /\ pc[p] = "review" /\ idx[p] = 2
        /\ Len(terraformFiles[p]) = 2
        /\ log[p][1].file = terraformFiles[p][1].filename
        /\ CallsOk(p, "upsert") # {}

\* ---- C19
\* C19: a text request, whatever it resolves to, is followed by the table
\* lookup, and an event rejects only on a failed listing, lookup, create or
\* upsert: never on the text source.
C19_TextSourceNeverFailsEvent ==
    \A p \in Procs :
        /\ Len(log[p]) = 1 /\ log[p][1].op = "review"
              => pc[p] = "find" /\ result[p] = "none"
        /\ result[p] = "rejected" =>
              /\ ~log[p][Len(log[p])].ok
              /\ log[p][Len(log[p])].op \in {"list", "find", "post", "upsert"}

\* The text source failed for the last file and the event resolved.
C19_Witness ==
    \E p \in Procs :
        /\ pc[p] = "done" /\ result[p] = "resolved"
        /\ FileDone(p)
        /\ ~TextOk(p)

\* ---- C20
\* C20: an event whose action is neither 'opened' nor 'synchronize'
\* resolves at once with no call made: no listing, no text request, no
\* comment call, no table read or write.
C20_OnlyOpenedAndSynchronize ==
    \A p \in Procs :
        pc[p] # "idle" /\ payload[p].action \notin {"opened", "synchronize"} =>
            /\ pc[p] = "done" /\ result[p] = "resolved"
            /\ log[p] = <<>>
            /\ terraformFiles[p] = <<>>
            /\ rows = pre[p]

C20_Witness ==
    \E p \in Procs :
        /\ pc[p] = "done"
        /\ payload[p].action \in {"closed", "edited"}
        /\ rows # {} /\ comments # {}

\* ---- C24
\* C24: for a file that has a record (so that updateReviewComment was
\* called for it), postFileLevelReviewComment is called only if that
\* updateReviewComment call failed.
C24_FallbackOnlyOnFailedCommentUpdate ==
    \A p \in Procs :
        Calls(p, "updateComment") # {} /\ Calls(p, "post") # {}
            => CallsFailed(p, "updateComment") # {}

\* ---- C25
\* The last call in the log of p, before and after the step.
Last(p) == log[p][Len(log[p])]
LastAfter(p) == log'[p][Len(log'[p])]

\* C25: the table changes only in a step that ends a successful update or
\* upsert of one delivery; the call just before an update is that file's
\* successful updateReviewComment and the update changes the hash alone;
\* the call just before an upsert is that file's successful
\* postFileLevelReviewComment and the upsert stores the id it returned.
C25_WritesFollowRemoteSuccess ==
    [][ rows' # rows =>
          \E p \in Procs :
              /\ Len(log[p]) >= 1 /\ log'[p] = Append(log[p], LastAfter(p))
              /\ LastAfter(p).ok
              /\ LastAfter(p).file = Last(p).file
              /\ Last(p).ok
              /\ \/ /\ LastAfter(p).op = "update"
                    /\ Last(p).op = "updateComment"
                    /\ \A r \in rows' \ rows : \E o \in rows \ rows' :
                           r = [o EXCEPT !.fileSha = r.fileSha]
                 \/ /\ LastAfter(p).op = "upsert"
                    /\ Last(p).op = "post"
                    /\ \A r \in rows' \ rows :
                           /\ r.commentId = toString(Last(p).n)
                           /\ r.key[4] = Last(p).file
      ]_vars

\* A hash-only update and, in a later event, an upsert have both happened.
C25_Witness ==
    \E p \in Procs :
        /\ FileDone(p)
        /\ before(p) # NoRecord
        /\ CallsOk(p, "updateComment") # {} /\ CallsOk(p, "update") # {}
        /\ after(p) = [before(p) EXCEPT !.fileSha = doneFile(p).sha]
        /\ after(p) # before(p)

\* ---- C26
\* C26: the calls made for one file hold at most one table lookup, at
\* most one updateReviewComment and at most one postFileLevelReviewComment,
\* and an event's files have distinct paths.
C26_NoRetryInsideEvent ==
    \A p \in Procs :
        /\ Cardinality(Calls(p, "find")) <= 1
        /\ Cardinality(Calls(p, "updateComment")) <= 1
        /\ Cardinality(Calls(p, "post")) <= 1
        /\ \A i, j \in 1..Len(terraformFiles[p]) :
               terraformFiles[p][i].filename = terraformFiles[p][j].filename => i = j

\* Every call of the file failed that could: one lookup, one failed comment
\* update, one failed create, and the event is over.
C26_Witness ==
    \E p \in Procs :
        /\ pc[p] = "done" /\ result[p] = "rejected"
        /\ Cardinality(Calls(p, "find")) = 1
        /\ Cardinality(CallsFailed(p, "updateComment")) = 1
        /\ Cardinality(CallsFailed(p, "post")) = 1
        /\ Len(log[p]) = 4

\* ---- C28
\* C28: every text request for a file comes after the successful table
\* lookup for that file.
C28_TextOnlyOnChange ==
    \A p \in Procs :
        \A i \in Calls(p, "review") : \E j \in CallsOk(p, "find") : j < i

\* ---- C29
\* C29: whatever was interleaved before, the step that ends a file's
\* processing without an exception leaves that file's record with the
\* listing's hash and the id of a live comment for its path, and changes no
\* other record; when the lookup finds the listing's hash (a repeat of the
\* event) the step writes nothing.  A delivery processed alone keeps what
\* each of its files' last steps left.
C29_ConvergenceAfterConcurrency ==
    [][ \A p \in Procs :
          /\ pc[p] \in {"find", "dbupdate", "upsert"}
          /\ pc'[p] \in {"review", "done"}
          /\ result'[p] # "rejected"
          => LET f == terraformFiles[p][idx[p]]
                 key == Key(payload[p], f)
                 r == findUnique(rows', key)
             IN /\ r # NoRecord
                /\ r.fileSha = f.sha
                /\ \E c \in comments' :
                      toString(c.id) = r.commentId /\ c.path = f.filename
                /\ \A o \in rows' : o.key # key => o \in rows
                /\ pc[p] = "find" => rows' = rows /\ comments' = comments
      ]_vars

\* After deliveries that left two comments for the path, a delivery whose
\* calls all succeeded has ended with nothing else in the handler.
C29_Witness ==
    \E p \in Procs :
        /\ pc[p] = "done" /\ result[p] = "resolved"
        /\ \A q \in Procs : q # p => pc[q] = "idle"
        /\ CallsOk(p, "updateComment") # {} /\ CallsOk(p, "update") # {}
        /\ after(p).fileSha = doneFile(p).sha
        /\ Cardinality({ c \in comments : c.path = doneFile(p).filename }) = 2

\* ---- C27
\* C27: the comment a delivery creates carries that delivery's pull-request
\* number, head commit, owner, repository and the path of the file it is
\* at, and a record a delivery writes gets the hash of that file in the
\* delivery's own listing, with deliveries of two pull requests
\* interleaved.
C27_EventsDoNotLeak ==
    [][ \A p \in Procs :
          /\ pc[p] = "post" /\ pc'[p] = "upsert" =>
                \A c \in comments' \ comments :
                    /\ c.pr = payload[p].number
                    /\ c.commit = payload[p].head
                    /\ c.owner = payload[p].owner /\ c.repo = payload[p].repo
                    /\ c.path = terraformFiles[p][idx[p]].filename
          /\ pc[p] \in {"dbupdate", "upsert"} /\ pc'[p] # pc[p] =>
                \A r \in rows' \ rows :
                    /\ r.fileSha = terraformFiles[p][idx[p]].sha
                    /\ r.key[4] = terraformFiles[p][idx[p]].filename
      ]_vars

\* Deliveries of the two pull requests were in the handler together and
\* each has created its comment.
C27_Witness ==
    \E p, q \in Procs :
        /\ payload[p].number = 7 /\ payload[q].number = 8
        /\ CallsOk(p, "post") # {} /\ CallsOk(q, "post") # {}
        /\ \E c, d \in comments :
              /\ c.pr = 7 /\ c.commit = HeadOf(7)
              /\ d.pr = 8 /\ d.commit = HeadOf(8)

\* ---- C30
\* The record of the path of f in the repository of delivery p, when the
\* comment it points at was created for another pull request.
FromOtherPull(p, f) ==
    { r \in rows :
        \E c \in comments :
            /\ toString(c.id) = r.commentId
            /\ c.path = f.filename
            /\ c.owner = payload[p].owner /\ c.repo = payload[p].repo
            /\ c.pr # payload[p].number }

\* C30: when the lookup of a delivery meets a record written for the same
\* path by a delivery of another pull request, an equal hash ends the file
\* with no comment call and no write, and a different hash leads to
\* updateReviewComment on the comment id of that record, before anything
\* else.
C30_RecordsSharedAcrossPullRequests ==
    [][ \A p \in Procs :
          LET f == terraformFiles[p][idx[p]] IN
          /\ pc[p] = "find" /\ pc'[p] # "find" =>
                \A r \in FromOtherPull(p, f) :
                    IF r.fileSha = f.sha
                    THEN /\ pc'[p] \in {"review", "done"}
                         /\ result'[p] # "rejected"
                         /\ rows' = rows /\ comments' = comments
                    ELSE /\ pc'[p] = "update"
                         /\ existingRecord'[p] = r
          /\ pc[p] = "update" /\ pc'[p] # "update" =>
                /\ log'[p][Len(log'[p])].op = "updateComment"
                /\ log'[p][Len(log'[p])].n = parseInt(existingRecord[p].commentId)
      ]_vars

\* A delivery of pull request 8 has updated the comment that a delivery of
\* pull request 7 created for the path.
C30_Witness ==
    \E p \in Procs :
        /\ payload[p].number = 8
        /\ CallsOk(p, "updateComment") # {}
        /\ \E c \in comments :
              /\ c.pr = 7
              /\ c.id = log[p][CHOOSE i \in CallsOk(p, "updateComment") : TRUE].n
              /\ c.path = terraformFiles[p][idx[p]].filename

\* C21: the processing of a pull_request delivery starts only after the one
\* response 200 was sent; while it runs and when it settles the response
\* stays as sent and the server stays up, and a processing that failed
\* leaves one more printed error and nothing else.
C21_AcknowledgedBeforeProcessing ==
    [][\A p \in Procs :
          /\ pc'[p] # "idle" => response'[p] = <<200>>
          /\ pc[p] # "idle" => response'[p] = response[p] /\ up'
          /\ pc[p] = "done" /\ pc'[p] = "idle" =>
                errors'[p] = IF result[p] = "rejected"
                             THEN Append(errors[p], "Error processing webhook event")
                             ELSE errors[p]]_vars

\* A delivery was acknowledged, its processing failed and was printed, and
\* the server is still up.
C21_Witness ==
    \E p \in Procs :
        /\ up
        /\ wpc[p] = "returned"
        /\ pc[p] = "idle"
        /\ response[p] = <<200>>
        /\ errors[p] = <<"Error processing webhook event">>

\* The request carries no signature, or one that is not the digest of its
\* raw body under the configured secret.
Unsigned(r) ==
    \/ r.signature = <<>>
    \/ \A b \in Bodies : r.signature = sign(WEBHOOK_SECRET, b) => b # r.body

\* C22: a request without the signature header, or whose signature is not
\* the digest of its raw body, gets no service and starts no processing, its
\* rejection touches neither the handler nor the store nor the provider, and
\* its response is 500.
C22_UnsignedNeverProcessed ==
    [][\A p \in Procs :
          req'[p] # NoRequest /\ Unsigned(req'[p]) =>
              /\ service'[p] = <<>>
              /\ pc'[p] = "idle"
              /\ wpc'[p] \in {"verify", "returned"}
              /\ wpc'[p] = "returned" => response'[p] = <<500>>
              /\ UNCHANGED handler]_vars

\* A request signed with another secret, and one signed for another body,
\* were answered 500 after the store had records.
C22_Witness ==
    /\ rows # {}
    /\ \E p \in Procs :
          /\ wpc[p] = "returned"
          /\ response[p] = <<500>>
          /\ req[p].signature # <<>>
          /\ req[p].signature # sign(WEBHOOK_SECRET, req[p].body)
          /\ req[p].event = "pull_request"
          /\ req[p].body.installation = <<11>>

\* The token GitHub issued last for installation i, as a set: empty when it
\* issued none.
LastIssued(i) ==
    { e \in issued : /\ e.installationId = i
                     /\ \A f \in issued : f.installationId = i => f.token <= e.token }

\* The token issued last for installation i expires more than 30 seconds
\* after the present time.
InWindow(i) == \E e \in LastIssued(i) : e.expiresAt > now + 30000

ThrowsBuilding(r) ==
    /\ r.event = "pull_request"
    /\ r.body.installation = <<>> \/ r.body.installation = <<0>>

\* C31: a webhook request never has more than one response, none before
\* handleWebhook answers, and once handleWebhook has answered exactly one:
\* 500 if the signature does not verify or the pull_request branch throws
\* before its acknowledgement, 200 otherwise; it stays so while and after
\* the processing runs.
C31_ExactlyOneResponse ==
    \A p \in Procs :
        /\ Len(response[p]) <= 1
        /\ wpc[p] \in {"idle", "verify", "created"} => response[p] = <<>>
        /\ wpc[p] \in {"acked", "returned"} =>
              response[p] = IF Unsigned(req[p]) \/ ThrowsBuilding(req[p])
                            THEN <<500>>
                            ELSE <<200>>

\* A correctly signed pull_request delivery whose installation id is 0 was
\* answered 500 and nothing else, and a record exists from an earlier one.
C31_Witness ==
    /\ rows # {}
    /\ \E p \in Procs :
          /\ wpc[p] = "returned"
          /\ req[p].signature = sign(WEBHOOK_SECRET, req[p].body)
          /\ req[p].event = "pull_request"
          /\ req[p].body.installation = <<0>>
          /\ response[p] = <<500>>
          /\ service[p] = <<>>
Rank(s) ==
    CASE s = "review" -> 6
      [] s = "find" -> 5
      [] s = "update" -> 4
      [] s = "dbupdate" -> 3
      [] s = "post" -> 2
      [] s = "upsert" -> 1
      [] OTHER -> 0

\* A bound on the awaited calls delivery p can still make: six for each
\* file the loop has not reached, and one more for the listing.
Remaining(p) ==
    IF pc[p] = "list" THEN 6 * MaxFiles + 1
    ELSE IF pc[p] \in {"idle", "done"} THEN 0
    ELSE 6 * (Len(terraformFiles[p]) - idx[p]) + Rank(pc[p])

\* C33: every call that returns to a delivery in the handler, with success
\* or failure, lowers the number of calls it can still make, which starts at
\* no more than six per listed file plus one and never goes below zero; the
\* loop position never goes back; and when every call returns, no delivery
\* stays in the handler for ever: again and again every delivery is outside
\* it or has ended with its promise resolved or rejected.
C33_Termination ==
    /\ [][\A p \in Procs :
             pc[p] \notin {"idle", "done"} /\ (pc'[p] # pc[p] \/ log'[p] # log[p]) =>
                 /\ Remaining(p)' < Remaining(p)
                 /\ Remaining(p)' >= 0
                 /\ pc[p] # "list" => idx'[p] >= idx[p]
                 /\ pc[p] # "list" => terraformFiles'[p] = terraformFiles[p]]_vars
    /\ []<>(\A p \in Procs :
               \/ pc[p] = "idle"
               \/ pc[p] = "done" /\ result[p] \in {"resolved", "rejected"})

\* A delivery listed two eligible files, went through both, the second by
\* a create and an upsert, and resolved.
C33_Witness ==
    \E p \in Procs :
        /\ pc[p] = "done"
        /\ result[p] = "resolved"
        /\ Len(terraformFiles[p]) = MaxFiles
        /\ idx[p] = MaxFiles
        /\ CallsOk(p, "post") # {}
        /\ CallsOk(p, "upsert") # {}
====
